---- MODULE Spec2Model ----
(***************************************************************************)
(* A model of the retrieval-to-generation pipeline of backend/rag.py and   *)
(* of the /ask endpoint of backend/main.py.                                *)
(*                                                                         *)
(* Python strings are sequences of tokens (words, "\n" for a newline), so  *)
(* that f-strings, str.join, str.format and str.strip are computed and     *)
(* "the prompt contains ..." is a statement about sub-sequences.           *)
(* Python values carry their type in the field t; dicts are functions      *)
(* whose domain is the set of keys that are present.                       *)
(***************************************************************************)
EXTENDS Integers, Sequences, FiniteSets, TLC

VARIABLES
  env,           \* os.environ: HF_TOKEN and OPENAI_API_KEY
  hf_client,     \* rag.hf_client: 0 is None, k > 0 the k-th InferenceClient
  made,          \* provider clients constructed so far: 0, 1, or 2 for more
  templateFile,  \* rag_prompt.txt next to rag.py
  pc,            \* per request: where its handler stands
  loc,           \* per request: the local variables of answer_user_query
  hist,          \* per request: what the handler did (calls made, steps run)
  outcome,       \* per request: what answer_user_query returned or raised
  response,      \* per request: the HTTP response of /ask
  call,          \* a call of one of the pure functions
  out            \* and its result

vars == <<env, hf_client, made, templateFile, pc, loc, hist, outcome,
          response, call, out>>

pipelineVars == <<env, hf_client, made, templateFile, pc, loc, hist, outcome,
                  response>>

-----------------------------------------------------------------------------
(* Bounds *)

MaxRecords == 2      \* longest payload of the vector-store RPC
MaxLen == 3          \* longest record list handed to get_top_n_docs
MaxPairs == 2        \* longest context handed to build_llm_prompt
MaxItems == 2        \* longest payload handed to the normalisation loop

-----------------------------------------------------------------------------
(* Python values *)

NoneV == [t |-> "None"]
PyStr(s) == [t |-> "str", s |-> s]
PyInt(n) == [t |-> "int", i |-> n]
\* a float is kept in tenths: PyFloat(295) is 29.5
PyFloat(n) == [t |-> "float", f |-> n]
\* a JSON array: it is neither a number nor a dict
PyList == [t |-> "list"]

EmptyDict == [k \in {} |-> NoneV]

\* dict.get(key, default)
Get(d, key, default) == IF key \in DOMAIN d THEN d[key] ELSE default

\* d[key] = value
Put(d, key, value) ==
  [k \in DOMAIN d \cup {key} |-> IF k = key THEN value ELSE d[k]]

\* bool(v)
Truthy(v) ==
  CASE v.t = "None" -> FALSE
    [] v.t = "str" -> v.s # <<>>
    [] v.t = "int" -> v.i # 0
    [] v.t = "float" -> v.f # 0
    [] v.t = "list" -> FALSE

\* str(v), which is also what an f-string writes for {v}
ToStr(v) ==
  CASE v.t = "None" -> <<"None">>
    [] v.t = "str" -> v.s
    [] v.t = "int" -> <<ToString(v.i)>>
    [] v.t = "float" -> <<ToString(v.f \div 10), ".", ToString(v.f % 10)>>
    [] v.t = "list" -> <<"[]">>

Digit ==
  [d \in {"0", "1", "2", "3", "4", "5", "6", "7", "8", "9"} |->
     CASE d = "0" -> 0 [] d = "1" -> 1 [] d = "2" -> 2 [] d = "3" -> 3
       [] d = "4" -> 4 [] d = "5" -> 5 [] d = "6" -> 6 [] d = "7" -> 7
       [] d = "8" -> 8 [] d = "9" -> 9]

\* the text is a decimal literal: "7" or "0.3"
IsNumeral(s) ==
  \/ Len(s) = 1 /\ s[1] \in DOMAIN Digit
  \/ Len(s) = 3 /\ s[1] \in DOMAIN Digit /\ s[2] = "." /\ s[3] \in DOMAIN Digit

\* float(v): [ok, val] on success, [ok, exc] when it raises
ToFloat(v) ==
  CASE v.t = "float" -> [ok |-> TRUE, val |-> v]
    [] v.t = "int" -> [ok |-> TRUE, val |-> PyFloat(10 * v.i)]
    [] v.t = "str" ->
         IF IsNumeral(v.s)
         THEN [ok |-> TRUE,
               val |-> PyFloat(IF Len(v.s) = 1 THEN 10 * Digit[v.s[1]]
                               ELSE 10 * Digit[v.s[1]] + Digit[v.s[3]])]
         ELSE [ok |-> FALSE, exc |-> "ValueError"]
    [] v.t = "None" -> [ok |-> FALSE, exc |-> "TypeError"]
    [] v.t = "list" -> [ok |-> FALSE, exc |-> "TypeError"]

-----------------------------------------------------------------------------
(* Text *)

Min(a, b) == IF a <= b THEN a ELSE b
Max(a, b) == IF a >= b THEN a ELSE b

RECURSIVE Join(_, _)
\* sep.join(parts)
Join(sep, parts) ==
  IF parts = <<>> THEN <<>>
  ELSE IF Len(parts) = 1 THEN parts[1]
  ELSE parts[1] \o sep \o Join(sep, Tail(parts))

Whitespace == {"\n", " ", "\t"}

RECURSIVE LStrip(_)
LStrip(s) ==
  IF s # <<>> /\ s[1] \in Whitespace THEN LStrip(Tail(s)) ELSE s

RECURSIVE RStrip(_)
RStrip(s) ==
  IF s # <<>> /\ s[Len(s)] \in Whitespace
  THEN RStrip(SubSeq(s, 1, Len(s) - 1)) ELSE s

\* s.strip()
Strip(s) == RStrip(LStrip(s))

\* sub occurs in s at position p
OccursAt(s, sub, p) ==
  /\ p >= 1
  /\ p + Len(sub) - 1 <= Len(s)
  /\ SubSeq(s, p, p + Len(sub) - 1) = sub

\* sub in s
Contains(s, sub) == \E p \in 1..(Len(s) + 1) : OccursAt(s, sub, p)

\* s[:n]
SliceTo(s, n) ==
  IF n >= 0 THEN SubSeq(s, 1, Min(n, Len(s)))
  ELSE SubSeq(s, 1, Max(Len(s) + n, 0))

-----------------------------------------------------------------------------
(* rag.py: the pure functions *)

\* a raw item of response.data is a dict unless it is another JSON value
IsDict(raw) == "t" \notin DOMAIN raw

\* the loop body without the fallback to "distance"
NormalizeItem_similarity_only(raw) ==
  LET item == IF IsDict(raw) THEN raw ELSE EmptyDict
      similarity == Get(item, "similarity", NoneV)
  IN IF similarity # NoneV /\ ToFloat(similarity).ok
     THEN Put(item, "similarity", ToFloat(similarity).val)
     ELSE item

\* get_similarities: the body of the loop over response.data.  A JSON value
\* has no __dict__, so an item that is no dict becomes {}.
NormalizeItem(raw) ==
  LET item == IF IsDict(raw) THEN raw ELSE EmptyDict
      first == Get(item, "similarity", NoneV)
      similarity == IF first = NoneV THEN Get(item, "distance", NoneV)
                    ELSE first
  IN IF similarity # NoneV /\ ToFloat(similarity).ok
     THEN Put(item, "similarity", ToFloat(similarity).val)
     ELSE item

\* get_similarities answering a response without data with an empty record
Normalize_requires_data(payload) ==
  IF ~payload.has THEN <<EmptyDict>>
  ELSE IF payload.data = <<>> THEN <<EmptyDict>>
  ELSE [i \in 1..Len(payload.data) |-> NormalizeItem(payload.data[i])]

\* get_similarities: what it returns for the payload of the RPC response
Normalize(payload) ==
  IF ~payload.has THEN <<>>
  ELSE [i \in 1..Len(payload.data) |-> NormalizeItem(payload.data[i])]

\* get_top_n_docs without its test of n <= 0
get_top_n_docs_unguarded(attractions, n) == SliceTo(attractions, n)

\* get_top_n_docs slicing one record too far
get_top_n_docs_one_more(attractions, n) ==
  IF n <= 0 THEN <<>> ELSE SliceTo(attractions, n + 1)


get_top_n_docs(attractions, n) ==
  IF n <= 0 THEN <<>> ELSE SliceTo(attractions, n)

build_attraction_text(attraction) ==
  LET attraction_name == Get(attraction, "attraction_name", PyStr(<<>>))
      city_name == Get(attraction, "city_name", PyStr(<<>>))
      attraction_type == Get(attraction, "attraction_type", PyStr(<<>>))
      address == Get(attraction, "address", PyStr(<<>>))
      price == Get(attraction, "price", NoneV)
      currency == Get(attraction, "currency", PyStr(<<"USD">>))
      open_hours == Get(attraction, "open_hours", PyStr(<<>>))
      things_to_do == Get(attraction, "things_to_do", PyStr(<<>>))
      parts ==
        (IF Truthy(attraction_name)
         THEN IF Truthy(city_name)
              THEN << <<"Attraction:">> \o ToStr(attraction_name)
                        \o <<"in">> \o ToStr(city_name) >>
              ELSE << <<"Attraction:">> \o ToStr(attraction_name) >>
         ELSE <<>>)
        \o (IF Truthy(attraction_type)
            THEN << <<"Type:">> \o ToStr(attraction_type) >> ELSE <<>>)
        \o (IF Truthy(address)
            THEN << <<"Address:">> \o ToStr(address) >> ELSE <<>>)
        \o (IF price # NoneV
            THEN << <<"Price:">> \o ToStr(price) \o ToStr(currency) >>
            ELSE <<>>)
        \o (IF Truthy(open_hours)
            THEN << <<"Opening", "Hours:">> \o ToStr(open_hours) >>
            ELSE <<>>)
        \o (IF Truthy(things_to_do)
            THEN << <<"Description:">> \o ToStr(things_to_do) >> ELSE <<>>)
  IN IF parts # <<>> THEN Join(<<"\n">>, parts) ELSE <<>>

\* the loop body without its test of the formatted text
ContextEntry_keeps_empty_text(attraction) ==
  LET attraction_id == ToStr(Get(attraction, "id", PyStr(<<>>)))
      text == build_attraction_text(attraction)
  IN IF attraction_id = <<>> THEN <<>> ELSE << <<attraction_id, text>> >>

\* answer_user_query, step 3: the body of the loop over top_attractions
ContextEntry(attraction) ==
  LET attraction_id == ToStr(Get(attraction, "id", PyStr(<<>>)))
      text == build_attraction_text(attraction)
  IN IF attraction_id = <<>> THEN <<>>
     ELSE IF text # <<>> THEN << <<attraction_id, text>> >>
     ELSE <<>>

RECURSIVE attractions_with_text(_)
\* answer_user_query, step 3: the list the loop builds
attractions_with_text(top_attractions) ==
  IF top_attractions = <<>> THEN <<>>
  ELSE ContextEntry(Head(top_attractions))
       \o attractions_with_text(Tail(top_attractions))

DefaultTemplate ==
  <<
    "You", "are", "a", "helpful", "assistant", "specializing", "in",
    "travel", "and", "attractions.", "The", "user", "has", "asked", "the",
    "following", "question:", "\n", "\n", "User", "query:", "\n", "\"\"\"",
    "{user_query}", "\"\"\"", "\n", "\n", "{context_intro}", "\n", "\n",
    "IMPORTANT:", "Use", "ONLY", "the", "attractions", "provided", "in",
    "the", "database", "information", "above", "to", "answer", "the",
    "user's", "query.", "Do", "not", "add", "additional", "attractions,",
    "locations,", "or", "destinations", "that", "are", "not", "listed", "in",
    "the", "database.", "\n", "\n", "If", "the", "database", "contains",
    "relevant", "attractions,", "focus", "your", "answer", "exclusively",
    "on", "those.", "You", "may", "provide", "helpful", "context", "about",
    "the", "attractions", "(such", "as", "general", "travel", "tips", "or",
    "cultural", "information),", "but", "do", "not", "introduce", "new",
    "destinations", "or", "attractions", "that", "are", "not", "in", "the",
    "database.", "\n", "\n", "If", "no", "relevant", "attractions", "were",
    "found", "in", "the", "database,", "you", "may", "provide", "a", "brief",
    "general", "answer,", "but", "clearly", "state", "that", "no",
    "specific", "attractions", "were", "found", "in", "the", "database.", "\n"
  >>

\* _load_prompt_template giving an empty template when the file cannot be
\* read
_load_prompt_template_no_fallback(file) ==
  IF file.state = "readable" THEN file.content
  ELSE IF file.state = "unreadable" THEN <<>>
  ELSE DefaultTemplate

\* _load_prompt_template: the file's text when it exists and can be read,
\* the built-in template otherwise
_load_prompt_template(file) ==
  IF file.state = "readable" THEN file.content ELSE DefaultTemplate

RankedIntro ==
  <<
    "Here", "are", "some", "relevant", "attractions", "from", "the",
    "database,", "ranked", "by", "similarity:", "\n", "\n"
  >>

NoRelevantIntro ==
  <<
    "No", "relevant", "attractions", "were", "retrieved", "from", "the",
    "database.", "Please", "answer", "based", "only", "on", "the", "user's",
    "query", "and", "your", "general", "knowledge", "about", "travel", "and",
    "attractions."
  >>

\* build_llm_prompt: f"Attraction ID: {attraction_id}\n{text}\n---"
ContextPart(pair) ==
  <<"Attraction", "ID:">> \o pair[1] \o <<"\n">> \o pair[2] \o <<"\n", "---">>

\* the context introduction with the two branches of the test exchanged
ContextIntro_branches_swapped(attractions_text) ==
  IF attractions_text = <<>>
  THEN RankedIntro
       \o Join(<<"\n", "\n">>,
               [i \in 1..Len(attractions_text) |->
                  ContextPart(attractions_text[i])])
  ELSE NoRelevantIntro

\* the context introduction with the parts joined last to first
ContextIntro_reversed(attractions_text) ==
  IF attractions_text # <<>>
  THEN RankedIntro
       \o Join(<<"\n", "\n">>,
               [i \in 1..Len(attractions_text) |->
                  ContextPart(attractions_text[Len(attractions_text) + 1 - i])])
  ELSE NoRelevantIntro

\* build_llm_prompt: the context introduction
ContextIntro(attractions_text) ==
  IF attractions_text # <<>>
  THEN RankedIntro
       \o Join(<<"\n", "\n">>,
               [i \in 1..Len(attractions_text) |->
                  ContextPart(attractions_text[i])])
  ELSE NoRelevantIntro

\* str.format, one piece of the template: a replacement field is replaced
\* by its value, copied and never parsed again; "{{" and "}}" are the
\* literal braces; a field with another name is a KeyError and a single
\* brace a ValueError
FormatToken(tok, user_query, context_intro) ==
  CASE tok = "{user_query}" -> [ok |-> TRUE, val |-> user_query]
    [] tok = "{context_intro}" -> [ok |-> TRUE, val |-> context_intro]
    [] tok = "{{" -> [ok |-> TRUE, val |-> <<"{">>]
    [] tok = "}}" -> [ok |-> TRUE, val |-> <<"}">>]
    [] tok \in {"{", "}"} -> [ok |-> FALSE, exc |-> "ValueError"]
    [] tok \in {"{city}"} -> [ok |-> FALSE, exc |-> "KeyError"]
    [] OTHER -> [ok |-> TRUE, val |-> <<tok>>]

RECURSIVE Format(_, _, _)
\* template.format(user_query=..., context_intro=...): the pieces from left
\* to right, the leftmost failure being the one that is raised
Format(template, user_query, context_intro) ==
  IF template = <<>> THEN [ok |-> TRUE, val |-> <<>>]
  ELSE IF Len(template) = 1
  THEN FormatToken(template[1], user_query, context_intro)
  ELSE LET mid == Len(template) \div 2
           left == Format(SubSeq(template, 1, mid), user_query, context_intro)
           right == Format(SubSeq(template, mid + 1, Len(template)),
                           user_query, context_intro)
       IN IF ~left.ok THEN left
          ELSE IF ~right.ok THEN right
          ELSE [ok |-> TRUE, val |-> left.val \o right.val]

build_llm_prompt(user_query, attractions_text, file) ==
  LET context_intro == ContextIntro(attractions_text)
      template == _load_prompt_template(file)
      prompt == Format(template, user_query, context_intro)
  IN IF prompt.ok THEN [ok |-> TRUE, val |-> Strip(prompt.val)] ELSE prompt

-----------------------------------------------------------------------------
(* The inputs of the pipeline *)

\* main.py: ask is a coroutine that never awaits, so the event loop runs one
\* request at a time; the single slot is reused by the next request
Reqs == {1}

Queries ==
  { <<"What", "can", "I", "see", "in", "Paris?">>,
    <<"Which", "museums", "are", "ranked", "best?">> }

\* the top_n of a request body: absent (None) or an integer
TopNInputs == {NoneV} \cup {PyInt(n) : n \in {0, 1, 10, 11}}

EnvValues == {NoneV, PyStr(<<"secret">>)}

Eiffel ==
  [id |-> PyStr(<<"id1">>), city_name |-> PyStr(<<"Paris">>),
   attraction_name |-> PyStr(<<"Eiffel", "Tower">>),
   attraction_type |-> PyStr(<<"landmark">>), price |-> PyFloat(295),
   currency |-> PyStr(<<"USD">>), similarity |-> PyFloat(9)]

Louvre ==
  [id |-> PyStr(<<"id2">>), attraction_name |-> PyStr(<<"Louvre">>),
   things_to_do |-> PyStr(<<"See", "the", "Mona", "Lisa">>),
   distance |-> PyFloat(3)]

IdOnly == [id |-> PyStr(<<"id3">>)]

NoId == [attraction_name |-> PyStr(<<"Arc">>), city_name |-> PyStr(<<"Paris">>)]

NullId == [id |-> NoneV, attraction_name |-> PyStr(<<"Orsay">>)]

\* the rows the vector store can answer with
Rows == {Eiffel, Louvre, IdOnly, NoId}

RECURSIVE SeqsUpTo(_, _)
\* the sequences over S of length at most n
SeqsUpTo(S, n) ==
  IF n = 0 THEN {<<>>}
  ELSE LET shorter == SeqsUpTo(S, n - 1)
       IN shorter \cup {Append(q, x) : q \in shorter, x \in S}

\* response.data: missing or None, or a list of rows
Payloads ==
  {[has |-> FALSE]}
    \cup {[has |-> TRUE, data |-> d] : d \in SeqsUpTo(Rows, MaxRecords)}

\* what client.feature_extraction returns: a vector, a batch of vectors, a
\* single number, or a value of another type; or it raises
EmbedResults ==
  { [kind |-> "raise"], [kind |-> "vector", vec |-> <<1, 2>>],
    [kind |-> "matrix", rows |-> << <<1, 2>>, <<3, 4>> >>],
    [kind |-> "scalar", num |-> 5], [kind |-> "other"] }

\* what client.chat.completions.create returns: the first choice's content
\* or a null list of choices; or it raises
ChatResults ==
  { [kind |-> "raise"],
    [kind |-> "content", v |-> PyStr(<<"The", "Eiffel", "Tower.">>)],
    [kind |-> "content", v |-> PyStr(<<>>)],
    [kind |-> "null_choices"] }

CustomTemplate ==
  <<"Question:", "{user_query}", "\n", "Context:", "{context_intro}", "\n",
    "Answer", "from", "the", "{{", "context", "}}", "only.", "\n">>

MalformedTemplate ==
  <<"Question:", "{user_query}", "\n", "City:", "{city}", "\n",
    "{context_intro}">>

\* rag_prompt.txt: absent, present but unreadable, or present with a text
TemplateFiles ==
  { [state |-> "missing"], [state |-> "unreadable"],
    [state |-> "readable", content |-> CustomTemplate],
    [state |-> "readable", content |-> MalformedTemplate] }

\* the text of an exception raised by a provider's library
ProviderDetail == <<"upstream", "failure", "detail">>

-----------------------------------------------------------------------------
(* The state of a request *)

NoLocals ==
  [user_query |-> <<>>, top_n |-> 0, query_embedding |-> <<>>,
   attractions |-> <<>>, top_attractions |-> <<>>,
   attractions_with_text |-> <<>>, prompt |-> <<>>]

\* top_n is the top_n of the request body, rpc how the RPC ended, and
\* selected_with the values of n that get_top_n_docs was called with
NoHistory ==
  [top_n |-> NoneV, trace |-> <<>>, embedCalls |-> 0, rpcCalls |-> 0,
   match_count |-> 0, rpc |-> "none", payload |-> [has |-> FALSE],
   selected_with |-> <<>>, file |-> [state |-> "missing"],
   sent |-> <<>>, reply |-> [kind |-> "none"]]

NoOutcome == [kind |-> "none"]
NoResponse == [status |-> 0]

Returned(text) == [kind |-> "return", val |-> text]
Raised(cls, step, msg) ==
  [kind |-> "raise", cls |-> cls, step |-> step, msg |-> msg]

NoCall == [fn |-> "none"]
Pending == [done |-> FALSE]

Init ==
  /\ env \in [{"HF_TOKEN", "OPENAI_API_KEY"} -> EnvValues]
  /\ hf_client = 0
  /\ made = [hf |-> 0, openai |-> 0]
  /\ templateFile \in TemplateFiles
  /\ pc = [r \in Reqs |-> "idle"]
  /\ loc = [r \in Reqs |-> NoLocals]
  /\ hist = [r \in Reqs |-> NoHistory]
  /\ outcome = [r \in Reqs |-> NoOutcome]
  /\ response = [r \in Reqs |-> NoResponse]
  /\ call = NoCall
  /\ out = Pending

-----------------------------------------------------------------------------
(* main.py *)

GenericDetail ==
  <<"An", "error", "occurred", "while", "generating", "an", "answer.",
    "Please", "try", "again", "later.">>

\* isinstance(exc, RuntimeError): the exceptions of the providers' libraries
\* (HfError, SupabaseError, OpenAIError) and ValueError, KeyError and
\* TypeError are no RuntimeError
IsRuntimeError(cls) == cls = "RuntimeError"

\* ask answering 200 when the exception is no RuntimeError
ask_answers_error(o) ==
  IF o.kind = "return" THEN [status |-> 200, answer |-> o.val]
  ELSE IF IsRuntimeError(o.cls) THEN [status |-> 500, detail |-> o.msg]
  ELSE [status |-> 200, answer |-> <<>>]

\* ask: the response for what answer_user_query returned or raised
ask(o) ==
  IF o.kind = "return" THEN [status |-> 200, answer |-> o.val]
  ELSE IF IsRuntimeError(o.cls) THEN [status |-> 500, detail |-> o.msg]
  ELSE [status |-> 500, detail |-> GenericDetail]

\* answer_user_query ends for request r, and ask answers the request
Finish(r, o) ==
  /\ outcome' = [outcome EXCEPT ![r] = o]
  /\ response' = [response EXCEPT ![r] = ask(o)]
  /\ pc' = [pc EXCEPT ![r] = "responded"]

InFlight(r) == pc[r] \notin {"idle", "responded"}

\* QueryRequest without le=10
ValidTopN_no_upper(n) == n = NoneV \/ n.i >= 1

\* QueryRequest: top_n is Optional, ge=1, le=10
ValidTopN(n) == n = NoneV \/ (n.i >= 1 /\ n.i <= 10)

\* ask with the default of max_matches in place of its own
DefaultTopN_ten(n) == IF n # NoneV THEN n.i ELSE 10

\* ask: top_n = request.top_n if request.top_n is not None else 3
DefaultTopN(n) == IF n # NoneV THEN n.i ELSE 3

\* a request arrives at /ask: pydantic validates the body, ask picks top_n
\* and calls answer_user_query
AskRequest(r, q, n) ==
  /\ ~InFlight(r)
  /\ hist' = [hist EXCEPT ![r] = [NoHistory EXCEPT !.top_n = n]]
  /\ IF ValidTopN(n)
     THEN /\ pc' = [pc EXCEPT ![r] = "get_hf_client"]
          /\ loc' = [loc EXCEPT ![r] =
                       [NoLocals EXCEPT !.user_query = q,
                                        !.top_n = DefaultTopN(n)]]
          /\ outcome' = [outcome EXCEPT ![r] = NoOutcome]
          /\ response' = [response EXCEPT ![r] = NoResponse]
     ELSE /\ pc' = [pc EXCEPT ![r] = "responded"]
          /\ loc' = [loc EXCEPT ![r] = NoLocals]
          /\ outcome' = [outcome EXCEPT ![r] = NoOutcome]
          /\ response' = [response EXCEPT ![r] = [status |-> 422]]
  /\ UNCHANGED <<env, hf_client, made, templateFile, call, out>>

\* the process environment changes between two requests
SetEnv(key, value) ==
  /\ \A r \in DOMAIN pc : ~InFlight(r)
  /\ env[key] # value
  /\ env' = [env EXCEPT ![key] = value]
  /\ UNCHANGED <<hf_client, made, templateFile, pc, loc, hist, outcome,
                 response, call, out>>

-----------------------------------------------------------------------------
(* rag.py: the steps of answer_user_query *)

Step(r, name) == Append(hist[r].trace, name)

\* get_hf_client without its test of HF_TOKEN
GetHfClient_unchecked(r) ==
  /\ pc[r] = "get_hf_client"
  /\ hist' = [hist EXCEPT ![r].trace = Step(r, "embed")]
  /\ pc' = [pc EXCEPT ![r] = IF hf_client # 0 THEN "feature_extraction"
                             ELSE "InferenceClient"]
  /\ UNCHANGED <<env, hf_client, made, templateFile, loc, outcome, response,
                 call, out>>

\* get_hf_client caching a client before it tests HF_TOKEN
GetHfClient_caches_failure(r) ==
  /\ pc[r] = "get_hf_client"
  /\ hist' = [hist EXCEPT ![r].trace = Step(r, "embed")]
  /\ IF hf_client # 0
     THEN /\ pc' = [pc EXCEPT ![r] = "feature_extraction"]
          /\ UNCHANGED <<outcome, response, hf_client>>
     ELSE IF ~Truthy(env["HF_TOKEN"])
     THEN /\ Finish(r, Raised("RuntimeError", "get_hf_client",
                              <<"HF_TOKEN", "environment", "variable", "is",
                                "not", "set">>))
          /\ hf_client' = 1
     ELSE /\ pc' = [pc EXCEPT ![r] = "InferenceClient"]
          /\ UNCHANGED <<outcome, response, hf_client>>
  /\ UNCHANGED <<env, made, templateFile, loc, call, out>>

\* get_hf_client also asking for OPENAI_API_KEY, before anything is called
GetHfClient_needs_openai_key(r) ==
  /\ pc[r] = "get_hf_client"
  /\ hist' = [hist EXCEPT ![r].trace = Step(r, "embed")]
  /\ IF ~Truthy(env["OPENAI_API_KEY"])
     THEN Finish(r, Raised("RuntimeError", "get_openai_client",
                           <<"OPENAI_API_KEY", "environment", "variable",
                             "is", "not", "set">>))
     ELSE IF hf_client # 0
     THEN /\ pc' = [pc EXCEPT ![r] = "feature_extraction"]
          /\ UNCHANGED <<outcome, response>>
     ELSE IF ~Truthy(env["HF_TOKEN"])
     THEN Finish(r, Raised("RuntimeError", "get_hf_client",
                           <<"HF_TOKEN", "environment", "variable", "is",
                             "not", "set">>))
     ELSE /\ pc' = [pc EXCEPT ![r] = "InferenceClient"]
          /\ UNCHANGED <<outcome, response>>
  /\ UNCHANGED <<env, hf_client, made, templateFile, loc, call, out>>

\* get_hf_client, up to the constructor: the cached client is returned
\* without looking at HF_TOKEN; with no cached client a missing HF_TOKEN
\* raises RuntimeError
GetHfClient(r) ==
  /\ pc[r] = "get_hf_client"
  /\ hist' = [hist EXCEPT ![r].trace = Step(r, "embed")]
  /\ IF hf_client # 0
     THEN /\ pc' = [pc EXCEPT ![r] = "feature_extraction"]
          /\ UNCHANGED <<outcome, response>>
     ELSE IF ~Truthy(env["HF_TOKEN"])
     THEN Finish(r, Raised("RuntimeError", "get_hf_client",
                           <<"HF_TOKEN", "environment", "variable", "is",
                             "not", "set">>))
     ELSE /\ pc' = [pc EXCEPT ![r] = "InferenceClient"]
          /\ UNCHANGED <<outcome, response>>
  /\ UNCHANGED <<env, hf_client, made, templateFile, loc, call, out>>

\* get_hf_client, the constructor: the new client is cached, or the
\* constructor's exception is raised again as it is
NewInferenceClient(r, ok) ==
  /\ pc[r] = "InferenceClient"
  /\ IF ok
     THEN /\ made' = [made EXCEPT !.hf = IF @ = 0 THEN 1 ELSE 2]
          /\ hf_client' = made'.hf
          /\ pc' = [pc EXCEPT ![r] = "feature_extraction"]
          /\ UNCHANGED <<outcome, response>>
     ELSE /\ Finish(r, Raised("HfError", "get_hf_client", ProviderDetail))
          /\ UNCHANGED <<hf_client, made>>
  /\ UNCHANGED <<env, templateFile, loc, hist, call, out>>

\* get_query_embedding calling the provider again after its first failure
FeatureExtraction_retry(r, result) ==
  /\ pc[r] = "feature_extraction"
  /\ hist' = [hist EXCEPT ![r].embedCalls = @ + 1]
  /\ CASE result.kind \in {"raise", "other"} ->
            /\ IF hist[r].embedCalls = 0
               THEN UNCHANGED <<pc, outcome, response>>
               ELSE Finish(r, Raised("RuntimeError", "get_query_embedding",
                                     <<"Failed", "to", "get", "embedding:">>))
            /\ UNCHANGED loc
       [] OTHER ->
            /\ loc' = [loc EXCEPT ![r].query_embedding =
                         CASE result.kind = "vector" -> result.vec
                           [] result.kind = "matrix" -> result.rows[1]
                           [] result.kind = "scalar" -> <<result.num>>]
            /\ pc' = [pc EXCEPT ![r] = "rpc"]
            /\ UNCHANGED <<outcome, response>>
  /\ UNCHANGED <<env, hf_client, made, templateFile, call, out>>

\* get_query_embedding, from the call of the provider on: every exception
\* of the try block is raised again as a RuntimeError that quotes it
FeatureExtraction(r, result) ==
  /\ pc[r] = "feature_extraction"
  /\ hist' = [hist EXCEPT ![r].embedCalls = @ + 1]
  /\ CASE result.kind = "raise" ->
            /\ Finish(r, Raised("RuntimeError", "get_query_embedding",
                                <<"Failed", "to", "get", "embedding:">>
                                  \o ProviderDetail))
            /\ UNCHANGED loc
       [] result.kind = "other" ->
            /\ Finish(r, Raised("RuntimeError", "get_query_embedding",
                                <<"Failed", "to", "get", "embedding:",
                                  "Unexpected", "embedding", "response",
                                  "format:">>))
            /\ UNCHANGED loc
       [] OTHER ->
            /\ loc' = [loc EXCEPT ![r].query_embedding =
                         CASE result.kind = "vector" -> result.vec
                           [] result.kind = "matrix" -> result.rows[1]
                           [] result.kind = "scalar" -> <<result.num>>]
            /\ pc' = [pc EXCEPT ![r] = "rpc"]
            /\ UNCHANGED <<outcome, response>>
  /\ UNCHANGED <<env, hf_client, made, templateFile, call, out>>

\* the count asked of the RPC being top_n itself
max_matches_is_top_n(top_n) == top_n

\* answer_user_query: max_matches=max(top_n, 10)
max_matches(top_n) == Max(top_n, 10)

\* get_similarities keeping its results in a list of the module, which every
\* caller then reads
MatchDocuments_shared(r, result) ==
  /\ pc[r] = "rpc"
  /\ hist' = [hist EXCEPT ![r].trace = Step(r, "retrieve"),
                          ![r].rpcCalls = @ + 1,
                          ![r].match_count = max_matches(loc[r].top_n),
                          ![r].rpc = IF result.kind = "raise" THEN "raise"
                                     ELSE "returned",
                          ![r].payload = IF result.kind = "raise"
                                         THEN [has |-> FALSE]
                                         ELSE result.payload]
  /\ IF result.kind = "raise"
     THEN /\ Finish(r, Raised("SupabaseError", "get_similarities",
                              ProviderDetail))
          /\ loc' = [loc EXCEPT ![r].query_embedding = <<>>]
     ELSE /\ loc' = [s \in DOMAIN loc |->
                       [loc[s] EXCEPT !.query_embedding =
                                        IF s = r THEN <<>> ELSE @,
                                      !.attractions =
                                        Normalize(result.payload)]]
          /\ pc' = [pc EXCEPT ![r] = "select"]
          /\ UNCHANGED <<outcome, response>>
  /\ UNCHANGED <<env, hf_client, made, templateFile, call, out>>

\* get_similarities, from the RPC on: an exception of the RPC is raised
\* again as it is; otherwise the payload is normalised and returned
MatchDocuments(r, result) ==
  /\ pc[r] = "rpc"
  /\ hist' = [hist EXCEPT ![r].trace = Step(r, "retrieve"),
                          ![r].rpcCalls = @ + 1,
                          ![r].match_count = max_matches(loc[r].top_n),
                          ![r].rpc = IF result.kind = "raise" THEN "raise"
                                     ELSE "returned",
                          ![r].payload = IF result.kind = "raise"
                                         THEN [has |-> FALSE]
                                         ELSE result.payload]
  /\ IF result.kind = "raise"
     THEN /\ Finish(r, Raised("SupabaseError", "get_similarities",
                              ProviderDetail))
          /\ loc' = [loc EXCEPT ![r].query_embedding = <<>>]
     ELSE /\ loc' = [loc EXCEPT ![r].query_embedding = <<>>,
                                ![r].attractions = Normalize(result.payload)]
          /\ pc' = [pc EXCEPT ![r] = "select"]
          /\ UNCHANGED <<outcome, response>>
  /\ UNCHANGED <<env, hf_client, made, templateFile, call, out>>

\* answer_user_query, steps 2 to 4: select, format, compose.  An exception
\* of template.format leaves build_llm_prompt as it is.
BuildPrompt(r) ==
  /\ pc[r] = "select"
  /\ LET top_attractions == get_top_n_docs(loc[r].attractions, loc[r].top_n)
         with_text == attractions_with_text(top_attractions)
         prompt == build_llm_prompt(loc[r].user_query, with_text, templateFile)
     IN /\ hist' = [hist EXCEPT ![r].trace =
                      @ \o <<"select", "format", "compose">>,
                                ![r].selected_with = Append(@, loc[r].top_n),
                                ![r].file = templateFile]
        /\ IF prompt.ok
           THEN /\ loc' = [loc EXCEPT ![r].top_attractions = top_attractions,
                                      ![r].attractions_with_text = with_text,
                                      ![r].prompt = prompt.val]
                /\ pc' = [pc EXCEPT ![r] = "call_llm"]
                /\ UNCHANGED <<outcome, response>>
           ELSE /\ loc' = [loc EXCEPT ![r].top_attractions = top_attractions,
                                      ![r].attractions_with_text = with_text]
                /\ Finish(r, Raised(prompt.exc, "build_llm_prompt",
                                    <<"'city'">>))
  /\ UNCHANGED <<env, hf_client, made, templateFile, call, out>>

\* the extraction returning the text without its last word
ExtractAnswer_cut(result) ==
  CASE result.kind = "content" ->
         [ok |-> TRUE,
          val |-> IF Truthy(result.v)
                  THEN SubSeq(result.v.s, 1, Len(result.v.s) - 1) ELSE <<>>]
    [] result.kind \in {"no_choices", "missing_choices", "null_message"} ->
         [ok |-> TRUE, val |-> <<>>]
    [] result.kind = "null_choices" -> [ok |-> FALSE, exc |-> "TypeError"]

\* call_llm: response.choices[0].message.content or "".  An empty list of
\* choices is an IndexError, a response without choices or a first choice
\* whose message is None an AttributeError, and each gives ""; choices that
\* is None is a TypeError, which the except clause does not name.
ExtractAnswer(result) ==
  CASE result.kind = "content" ->
         [ok |-> TRUE, val |-> IF Truthy(result.v) THEN result.v.s ELSE <<>>]
    [] result.kind \in {"no_choices", "missing_choices", "null_message"} ->
         [ok |-> TRUE, val |-> <<>>]
    [] result.kind = "null_choices" -> [ok |-> FALSE, exc |-> "TypeError"]

\* call_llm asking the provider again when its call fails
CallLlm_retry(r, result) ==
  /\ pc[r] = "call_llm"
  /\ Truthy(env["OPENAI_API_KEY"])
  /\ made' = [made EXCEPT !.openai = IF @ = 0 THEN 1 ELSE 2]
  /\ hist' = [hist EXCEPT ![r].trace = Step(r, "generate"),
                          ![r].sent = Append(@, loc[r].prompt),
                          ![r].reply = result]
  /\ IF result.kind = "raise" /\ Len(hist[r].sent) = 0
     THEN UNCHANGED <<pc, outcome, response>>
     ELSE Finish(r, Returned(<<>>))
  /\ UNCHANGED <<env, hf_client, templateFile, loc, call, out>>

\* call_llm with a get_openai_client that constructs a client on first use
\* and returns that one afterwards
CallLlm_cached(r, result) ==
  /\ pc[r] = "call_llm"
  /\ IF ~Truthy(env["OPENAI_API_KEY"])
     THEN /\ hist' = [hist EXCEPT ![r].trace = Step(r, "generate")]
          /\ Finish(r, Raised("RuntimeError", "get_openai_client",
                              <<"OPENAI_API_KEY", "environment", "variable",
                                "is", "not", "set">>))
          /\ UNCHANGED made
     ELSE /\ made' = [made EXCEPT !.openai = 1]
          /\ hist' = [hist EXCEPT ![r].trace = Step(r, "generate"),
                                  ![r].sent = Append(@, loc[r].prompt),
                                  ![r].reply = result]
          /\ IF result.kind = "raise"
             THEN Finish(r, Raised("OpenAIError", "call_llm",
                                   ProviderDetail))
             ELSE IF ExtractAnswer(result).ok
             THEN Finish(r, Returned(ExtractAnswer(result).val))
             ELSE Finish(r, Raised(ExtractAnswer(result).exc, "call_llm",
                                   <<"'NoneType'", "object", "is", "not",
                                     "subscriptable">>))
  /\ UNCHANGED <<env, hf_client, templateFile, loc, call, out>>

\* call_llm with a get_openai_client that does not test OPENAI_API_KEY
CallLlm_unchecked(r, result) ==
  /\ pc[r] = "call_llm"
  /\ made' = [made EXCEPT !.openai = IF @ = 0 THEN 1 ELSE 2]
  /\ hist' = [hist EXCEPT ![r].trace = Step(r, "generate"),
                          ![r].sent = Append(@, loc[r].prompt),
                          ![r].reply = result]
  /\ IF result.kind = "raise"
     THEN Finish(r, Raised("OpenAIError", "call_llm", ProviderDetail))
     ELSE IF ExtractAnswer(result).ok
     THEN Finish(r, Returned(ExtractAnswer(result).val))
     ELSE Finish(r, Raised(ExtractAnswer(result).exc, "call_llm",
                           <<"'NoneType'", "object", "is", "not",
                             "subscriptable">>))
  /\ UNCHANGED <<env, hf_client, templateFile, loc, call, out>>

\* call_llm: get_openai_client raises RuntimeError without OPENAI_API_KEY
\* and constructs a client otherwise; then one chat completion is
\* requested with the prompt as the user turn
CallLlm(r, result) ==
  /\ pc[r] = "call_llm"
  /\ IF ~Truthy(env["OPENAI_API_KEY"])
     THEN /\ hist' = [hist EXCEPT ![r].trace = Step(r, "generate")]
          /\ Finish(r, Raised("RuntimeError", "get_openai_client",
                              <<"OPENAI_API_KEY", "environment", "variable",
                                "is", "not", "set">>))
          /\ UNCHANGED made
     ELSE /\ made' = [made EXCEPT !.openai = IF @ = 0 THEN 1 ELSE 2]
          /\ hist' = [hist EXCEPT ![r].trace = Step(r, "generate"),
                                  ![r].sent = Append(@, loc[r].prompt),
                                  ![r].reply = result]
          /\ IF result.kind = "raise"
             THEN Finish(r, Raised("OpenAIError", "call_llm",
                                   ProviderDetail))
             ELSE IF ExtractAnswer(result).ok
             THEN Finish(r, Returned(ExtractAnswer(result).val))
             ELSE Finish(r, Raised(ExtractAnswer(result).exc, "call_llm",
                                   <<"'NoneType'", "object", "is", "not",
                                     "subscriptable">>))
  /\ UNCHANGED <<env, hf_client, templateFile, loc, call, out>>

Next ==
  \/ \E key \in DOMAIN env, value \in EnvValues : SetEnv(key, value)
  \/ \E r \in Reqs, q \in Queries, n \in TopNInputs : AskRequest(r, q, n)
  \/ \E r \in Reqs : GetHfClient(r)
  \/ \E r \in Reqs, ok \in BOOLEAN : NewInferenceClient(r, ok)
  \/ \E r \in Reqs, result \in EmbedResults : FeatureExtraction(r, result)
  \/ \E r \in Reqs :
       \E result \in {[kind |-> "raise"]}
                       \cup {[kind |-> "ok", payload |-> p] : p \in Payloads} :
         MatchDocuments(r, result)
  \/ \E r \in Reqs : BuildPrompt(r)
  \/ \E r \in Reqs, result \in ChatResults : CallLlm(r, result)

Spec == Init /\ [][Next]_vars

-----------------------------------------------------------------------------
(* answer_user_query called from two threads at once.  A thread may be      *)
(* suspended between any two of its steps, so the steps of the two callers  *)
(* interleave freely; hf_client, os.environ and the template file are what  *)
(* they share.                                                              *)

Callers == {1, 2}

\* the top_n the two callers ask with
CallerTopN == {NoneV, PyInt(1)}

\* what the RPC answers a caller with
CallerPayloads ==
  { [has |-> TRUE, data |-> <<>>], [has |-> TRUE, data |-> <<Louvre>>],
    [has |-> TRUE, data |-> <<Eiffel, Louvre>>] }

InitConc ==
  /\ env = [k \in {"HF_TOKEN", "OPENAI_API_KEY"} |-> PyStr(<<"secret">>)]
  /\ hf_client = 0
  /\ made = [hf |-> 0, openai |-> 0]
  /\ templateFile = [state |-> "missing"]
  /\ pc = [r \in Callers |-> "idle"]
  /\ loc = [r \in Callers |-> NoLocals]
  /\ hist = [r \in Callers |-> NoHistory]
  /\ outcome = [r \in Callers |-> NoOutcome]
  /\ response = [r \in Callers |-> NoResponse]
  /\ call = NoCall
  /\ out = Pending

NextConc ==
  \/ \E r \in Callers, q \in Queries, n \in CallerTopN : AskRequest(r, q, n)
  \/ \E r \in Callers : GetHfClient(r)
  \/ \E r \in Callers, ok \in BOOLEAN : NewInferenceClient(r, ok)
  \/ \E r \in Callers :
       \E result \in {e \in EmbedResults : e.kind \in {"raise", "vector"}} :
         FeatureExtraction(r, result)
  \/ \E r \in Callers :
       \E result \in {[kind |-> "ok", payload |-> p] : p \in CallerPayloads} :
         MatchDocuments(r, result)
  \/ \E r \in Callers : BuildPrompt(r)
  \/ \E r \in Callers :
       \E result \in {c \in ChatResults : c.kind = "content"} :
         CallLlm(r, result)

SpecConc == InitConc /\ [][NextConc]_vars

-----------------------------------------------------------------------------
(* The pure functions of rag.py, each applied to inputs of its own *)

\* the records handed to get_top_n_docs
Docs == {Eiffel, Louvre, IdOnly}

SelectCalls ==
  {[fn |-> "get_top_n_docs", attractions |-> a, n |-> n] :
     a \in SeqsUpTo(Docs, MaxLen), n \in (0 - 2)..(MaxLen + 1)}

\* the (attraction_id, formatted_text) pairs handed to build_llm_prompt
Pairs ==
  {<<id, text>> : id \in {<<"id1">>, <<"id2">>},
                  text \in {<<"Name:", "A">>, <<"Name:", "B">>}}

\* the queries handed to build_llm_prompt: also the empty one, and one that
\* reads like a replacement field
ComposeQueries == Queries \cup {<<>>, <<"{context_intro}">>}

\* a template whose own text uses the word of the framing sentence
RankingTemplate ==
  <<"Answer", "with", "the", "best", "ranked", "places.", "\n",
    "{user_query}", "\n", "{context_intro}", "\n", "Be", "brief.">>

ComposeFiles ==
  TemplateFiles \cup {[state |-> "readable", content |-> RankingTemplate]}

ComposeCalls ==
  {[fn |-> "build_llm_prompt", user_query |-> q, attractions_text |-> a,
    file |-> f] :
     q \in ComposeQueries, a \in SeqsUpTo(Pairs, MaxPairs), f \in ComposeFiles}

Absent == [t |-> "absent"]

\* the dict d with the key, unless the value is Absent
With(d, key, value) == IF value = Absent THEN d ELSE Put(d, key, value)

\* the raw items of a payload: a dict with any similarity and any distance,
\* or a JSON value that is no dict
RawItems ==
  {With(With([id |-> PyStr(<<"id9">>)], "similarity", s), "distance", d) :
     s \in {Absent, NoneV, PyFloat(9), PyStr(<<"abc">>)},
     d \in {Absent, NoneV, PyFloat(3), PyInt(1), PyStr(<<"0", ".", "3">>),
            PyList}}
    \cup {PyList}

NormalizeCalls ==
  {[fn |-> "get_similarities", payload |-> [has |-> TRUE, data |-> d]] :
     d \in SeqsUpTo(RawItems, MaxItems)}
    \cup {[fn |-> "get_similarities", payload |-> [has |-> FALSE]]}

\* the records handed to build_attraction_text: every field absent, empty
\* or with a value
RenderRecords ==
  {With(With(With(With(With(With(With(With([id |-> PyStr(<<"id7">>)],
     "attraction_name", a), "city_name", c), "attraction_type", ty),
     "address", ad), "price", pr), "currency", cu), "open_hours", h),
     "things_to_do", d) :
     a \in {Absent, PyStr(<<>>), PyStr(<<"Louvre">>)},
     c \in {Absent, PyStr(<<"Paris">>)},
     ty \in {Absent, PyStr(<<>>), PyStr(<<"museum">>)},
     ad \in {Absent, PyStr(<<"Rue", "de", "Rivoli">>)},
     pr \in {Absent, NoneV, PyStr(<<>>), PyInt(0), PyFloat(295)},
     cu \in {Absent, PyStr(<<"EUR">>)},
     h \in {Absent, PyStr(<<"9-18">>)},
     d \in {Absent, PyStr(<<>>), PyStr(<<"Art">>)}}

RenderCalls ==
  {[fn |-> "build_attraction_text", attraction |-> a] : a \in RenderRecords}

\* the selected records handed to the loop that builds the context
FormatCalls ==
  {[fn |-> "attractions_with_text", top_attractions |-> a] :
     a \in SeqsUpTo({Eiffel, IdOnly, NoId, NullId}, MaxItems)}

\* the responses of the chat completion: a first choice with a text, with
\* an empty text or with content None; an empty list of choices; no choices
\* attribute; choices None; a first choice whose message is None
ExtractCalls ==
  {[fn |-> "call_llm", response |-> c] :
     c \in (ChatResults \ {[kind |-> "raise"]})
            \cup {[kind |-> "content", v |-> NoneV]}
            \cup {[kind |-> k] :
                    k \in {"no_choices", "missing_choices", "null_message"}}}

\* the top_n answer_user_query is called with
MatchCalls ==
  {[fn |-> "max_matches", top_n |-> n] : n \in (0 - 1)..12}

InitPure ==
  /\ env = [k \in {"HF_TOKEN", "OPENAI_API_KEY"} |-> NoneV]
  /\ hf_client = 0
  /\ made = [hf |-> 0, openai |-> 0]
  /\ templateFile = [state |-> "missing"]
  /\ pc = [r \in Reqs |-> "idle"]
  /\ loc = [r \in Reqs |-> NoLocals]
  /\ hist = [r \in Reqs |-> NoHistory]
  /\ outcome = [r \in Reqs |-> NoOutcome]
  /\ response = [r \in Reqs |-> NoResponse]
  /\ call \in SelectCalls \cup ComposeCalls \cup NormalizeCalls
              \cup RenderCalls \cup FormatCalls \cup ExtractCalls
              \cup MatchCalls
  /\ out = Pending

Done(value) == [done |-> TRUE, val |-> value]

ApplySelect ==
  /\ call.fn = "get_top_n_docs"
  /\ ~out.done
  /\ out' = Done(get_top_n_docs(call.attractions, call.n))
  /\ UNCHANGED <<pipelineVars, call>>

ApplyCompose ==
  /\ call.fn = "build_llm_prompt"
  /\ ~out.done
  /\ out' = Done(build_llm_prompt(call.user_query, call.attractions_text,
                                  call.file))
  /\ UNCHANGED <<pipelineVars, call>>

ApplyNormalize ==
  /\ call.fn = "get_similarities"
  /\ ~out.done
  /\ out' = Done(Normalize(call.payload))
  /\ UNCHANGED <<pipelineVars, call>>

ApplyRender ==
  /\ call.fn = "build_attraction_text"
  /\ ~out.done
  /\ out' = Done(build_attraction_text(call.attraction))
  /\ UNCHANGED <<pipelineVars, call>>

ApplyFormat ==
  /\ call.fn = "attractions_with_text"
  /\ ~out.done
  /\ out' = Done(attractions_with_text(call.top_attractions))
  /\ UNCHANGED <<pipelineVars, call>>

ApplyExtract ==
  /\ call.fn = "call_llm"
  /\ ~out.done
  /\ out' = Done(ExtractAnswer(call.response))
  /\ UNCHANGED <<pipelineVars, call>>

ApplyMatch ==
  /\ call.fn = "max_matches"
  /\ ~out.done
  /\ out' = Done(max_matches(call.top_n))
  /\ UNCHANGED <<pipelineVars, call>>

NextPure ==
  \/ ApplySelect
  \/ ApplyCompose
  \/ ApplyNormalize
  \/ ApplyRender
  \/ ApplyFormat
  \/ ApplyExtract
  \/ ApplyMatch

SpecPure == InitPure /\ [][NextPure]_vars

-----------------------------------------------------------------------------
(* Claims about the pure functions, checked under SpecPure *)

Selected == call.fn = "get_top_n_docs" /\ out.done
Composed == call.fn = "build_llm_prompt" /\ out.done /\ out.val.ok
Normalized == call.fn = "get_similarities" /\ out.done

\* C4: for every record sequence and every integer n, get_top_n_docs returns
\* the empty sequence when n <= 0 and otherwise exactly the first
\* min(n, len(records)) records, in their input order.
C4_TopNIsPrefix ==
  Selected =>
    IF call.n <= 0 THEN out.val = <<>>
    ELSE /\ Len(out.val) = Min(call.n, Len(call.attractions))
         /\ \A i \in 1..Len(out.val) : out.val[i] = call.attractions[i]

\* a list of three records is cut to its first two
C4_Witness ==
  /\ Selected
  /\ call.n = 2
  /\ call.attractions = <<Louvre, Eiffel, IdOnly>>
  /\ out.val = <<Louvre, Eiffel>>

\* the word of the framing sentence that says the records are ranked
RankedWord == <<"ranked">>

\* C5, as the spec states it: for every query the prompt composed from an
\* empty context contains the query and the "no relevant records" sentence
\* and does not contain the word "ranked" (the template not using the word
\* itself).
C5_AsStated ==
  (Composed /\ call.attractions_text = <<>>
     /\ ~Contains(_load_prompt_template(call.file), RankedWord)) =>
    /\ Contains(out.val.val, call.user_query)
    /\ Contains(out.val.val, NoRelevantIntro)
    /\ ~Contains(out.val.val, RankedWord)

\* C5, amended: the prompt composed from an empty context contains the query
\* and the "no relevant records" sentence, and it contains the word "ranked"
\* only where the query or the template itself has it.
C5_EmptyContext ==
  (Composed /\ call.attractions_text = <<>>) =>
    /\ Contains(out.val.val, call.user_query)
    /\ Contains(out.val.val, NoRelevantIntro)
    /\ Contains(out.val.val, RankedWord) =>
         \/ Contains(call.user_query, RankedWord)
         \/ Contains(_load_prompt_template(call.file), RankedWord)

\* a query that has the word "ranked" is composed with an empty context
C5_Witness ==
  /\ Composed
  /\ call.attractions_text = <<>>
  /\ Contains(call.user_query, RankedWord)
  /\ call.file.state = "missing"
  /\ Contains(out.val.val, RankedWord)

\* the least position from which on sub occurs in s, 0 when there is none
FirstAt(s, sub, from) ==
  LET ps == {p \in from..(Len(s) + 1) : OccursAt(s, sub, p)}
  IN IF ps = {} THEN 0 ELSE CHOOSE p \in ps : \A q \in ps : p <= q

RECURSIVE OccurInOrder(_, _, _)
\* the texts of subs occur in s one after the other, from position from on
OccurInOrder(s, subs, from) ==
  \/ subs = <<>>
  \/ LET p == FirstAt(s, Head(subs), from)
     IN p # 0 /\ OccurInOrder(s, Tail(subs), p + Len(Head(subs)))

\* the framing sentence of a non-empty context
RankedSentence == SubSeq(RankedIntro, 1, 11)

\* the header line of a pair, followed by its text
HeaderAndText(pair) == <<"Attraction", "ID:">> \o pair[1] \o <<"\n">> \o pair[2]

\* C6: for every non-empty sequence of (identifier, text) pairs the prompt
\* contains the framing sentence and then, for each pair, its identifier
\* header followed by its text, the pairs in the order of the input.
C6_ContextInOrder ==
  (Composed /\ call.attractions_text # <<>>) =>
    OccurInOrder(out.val.val,
                 <<RankedSentence>>
                   \o [i \in 1..Len(call.attractions_text) |->
                         HeaderAndText(call.attractions_text[i])],
                 1)

\* the two pairs of the spec's example are composed
C6_Witness ==
  /\ Composed
  /\ call.attractions_text =
       << <<<<"id1">>, <<"Name:", "A">>>>, <<<<"id2">>, <<"Name:", "B">>>> >>

\* the number a Python int or float stands for, in tenths
NumValue(v) == IF v.t = "int" THEN 10 * v.i ELSE v.f

IsNumber(v) == v.t \in {"int", "float"}

\* C7: a raw record with a numeric distance and no similarity field is
\* normalised to a record whose score is that number; a raw record with
\* neither field is normalised to a record without a score field.
C7_ScoreFallback ==
  (Normalized /\ call.payload.has) =>
    \A i \in 1..Len(call.payload.data) :
      LET raw == call.payload.data[i]
          rec == out.val[i]
      IN IsDict(raw) =>
           /\ ("similarity" \notin DOMAIN raw /\ "distance" \in DOMAIN raw
                 /\ IsNumber(raw.distance)) =>
                /\ "similarity" \in DOMAIN rec
                /\ rec.similarity.t = "float"
                /\ NumValue(rec.similarity) = NumValue(raw.distance)
           /\ ("similarity" \notin DOMAIN raw /\ "distance" \notin DOMAIN raw) =>
                "similarity" \notin DOMAIN rec

\* a record with distance 0.3 and no similarity gets the score 0.3, next to
\* a record with neither field, which gets none
C7_Witness ==
  /\ Normalized
  /\ call.payload.has
  /\ call.payload.data =
       <<[id |-> PyStr(<<"id9">>), distance |-> PyFloat(3)],
         [id |-> PyStr(<<"id9">>)]>>
  /\ out.val[1].similarity = PyFloat(3)
  /\ DOMAIN out.val[2] = {"id"}

-----------------------------------------------------------------------------
(* Claims about the pipeline, checked under Spec *)

\* answer_user_query returned for request r
Answered(r) == pc[r] = "responded" /\ outcome[r].kind = "return"

\* answer_user_query raised for request r
Failed(r) == pc[r] = "responded" /\ outcome[r].kind = "raise"

\* answer_user_query raised for request r in one of the steps
FailedAt(r, steps) == Failed(r) /\ outcome[r].step \in steps

\* request r has a composed prompt
HasPrompt(r) ==
  \/ pc[r] = "call_llm"
  \/ FailedAt(r, {"get_openai_client", "call_llm"})
  \/ Answered(r)

IsNamed(attraction) ==
  "attraction_name" \in DOMAIN attraction /\ Truthy(attraction.attraction_name)

HasId(attraction) == ToStr(Get(attraction, "id", PyStr(<<>>))) # <<>>

\* the text the generation provider answered with
ReplyText(reply) == reply.v.s

\* C1, as the spec states it: when embedding, retrieval and generation
\* succeed and retrieval returns named records, the provider is invoked
\* exactly once, with the composed prompt, which has the name of every
\* selected record, and the provider's text is returned unchanged.
C1_AsStated ==
  \A r \in Reqs :
    (Answered(r) /\ loc[r].attractions # <<>>
       /\ \A i \in 1..Len(loc[r].attractions) : IsNamed(loc[r].attractions[i])) =>
      /\ Len(hist[r].sent) = 1
      /\ hist[r].sent[1] = loc[r].prompt
      /\ \A i \in 1..Len(loc[r].top_attractions) :
           Contains(loc[r].prompt,
                    ToStr(loc[r].top_attractions[i].attraction_name))
      /\ outcome[r].val = ReplyText(hist[r].reply)

\* C1, amended: when embedding, retrieval and generation succeed and
\* retrieval returns named records, the provider is invoked exactly once,
\* with the composed prompt, which has the name of every selected record
\* that has a non-empty identifier, and the provider's text is returned
\* unchanged.
C1_HappyPath ==
  \A r \in Reqs :
    (Answered(r) /\ loc[r].attractions # <<>>
       /\ \A i \in 1..Len(loc[r].attractions) : IsNamed(loc[r].attractions[i])) =>
      /\ Len(hist[r].sent) = 1
      /\ hist[r].sent[1] = loc[r].prompt
      /\ \A i \in 1..Len(loc[r].top_attractions) :
           HasId(loc[r].top_attractions[i]) =>
             Contains(loc[r].prompt,
                      ToStr(loc[r].top_attractions[i].attraction_name))
      /\ outcome[r].val = ReplyText(hist[r].reply)

\* two named records are retrieved and selected, and the provider's text
\* is returned
C1_Witness ==
  \E r \in Reqs :
    /\ Answered(r)
    /\ hist[r].payload = [has |-> TRUE, data |-> <<Eiffel, Louvre>>]
    /\ Len(loc[r].attractions_with_text) = 2
    /\ outcome[r].val = <<"The", "Eiffel", "Tower.">>

\* retrieval returned for request r, and it returned the empty sequence
EmptyRetrieval(r) ==
  /\ Len(hist[r].trace) >= 2
  /\ ~FailedAt(r, {"get_similarities"})
  /\ loc[r].attractions = <<>>

\* C2, as the spec states it: when retrieval returns an empty sequence,
\* answer_user_query does not fail, invokes the generation provider exactly
\* once with a prompt that has the fallback sentence, and returns the
\* provider's text.
C2_AsStated ==
  \A r \in Reqs :
    (pc[r] = "responded" /\ EmptyRetrieval(r)) =>
      /\ outcome[r].kind = "return"
      /\ Len(hist[r].sent) = 1
      /\ Contains(hist[r].sent[1], NoRelevantIntro)
      /\ outcome[r].val = ReplyText(hist[r].reply)

\* C2, amended: when retrieval returns an empty sequence, the call does not
\* fail before a prompt is composed unless the template cannot be
\* substituted; the prompt has the fallback sentence; unless the generation
\* credential is absent the provider is invoked exactly once, with that
\* prompt; and when the provider answers with a text, that text is returned
\* unmodified.
C2_EmptyRetrieval ==
  \A r \in Reqs :
    EmptyRetrieval(r) =>
      /\ Failed(r) =>
           outcome[r].step \in {"build_llm_prompt", "get_openai_client",
                                "call_llm"}
      /\ HasPrompt(r) => Contains(loc[r].prompt, NoRelevantIntro)
      /\ (pc[r] = "responded" /\ HasPrompt(r)
            /\ ~FailedAt(r, {"get_openai_client"})) =>
           hist[r].sent = <<loc[r].prompt>>
      /\ (pc[r] = "responded" /\ hist[r].reply.kind = "content") =>
           /\ outcome[r].kind = "return"
           /\ outcome[r].val = ReplyText(hist[r].reply)

\* the RPC answers with an empty list, the provider with the empty text
C2_Witness ==
  \E r \in Reqs :
    /\ Answered(r)
    /\ hist[r].payload = [has |-> TRUE, data |-> <<>>]
    /\ hist[r].reply = [kind |-> "content", v |-> PyStr(<<>>)]
    /\ outcome[r].val = <<>>

\* request r ends with the error of a missing embedding credential, and
\* neither the vector store nor the generation provider was called
EndsAsMissingHfToken(r) ==
  /\ pc'[r] = "responded"
  /\ outcome'[r].kind = "raise"
  /\ outcome'[r].cls = "RuntimeError"
  /\ outcome'[r].step = "get_hf_client"
  /\ hist'[r].embedCalls = 0
  /\ hist'[r].rpcCalls = 0
  /\ hist'[r].sent = <<>>

\* C3, as the spec states it: whenever answer_user_query is called while
\* HF_TOKEN is absent, after any earlier calls, it fails with the
\* configuration error and calls neither the vector store nor the
\* generation provider.
C3_AsStated ==
  [][\A r \in Reqs :
       (pc[r] = "get_hf_client" /\ pc'[r] # "get_hf_client"
          /\ ~Truthy(env["HF_TOKEN"])) => EndsAsMissingHfToken(r)]_vars

\* C3, amended: whenever answer_user_query is called while HF_TOKEN is
\* absent and no embedding client has been cached by an earlier call, it
\* fails with the configuration error and calls neither the vector store
\* nor the generation provider.
C3_MissingHfToken ==
  [][\A r \in Reqs :
       (pc[r] = "get_hf_client" /\ pc'[r] # "get_hf_client"
          /\ ~Truthy(env["HF_TOKEN"]) /\ hf_client = 0) =>
         EndsAsMissingHfToken(r)]_vars

\* a call has failed for the missing HF_TOKEN
C3_Witness ==
  \E r \in Reqs :
    /\ FailedAt(r, {"get_hf_client"})
    /\ outcome[r].cls = "RuntimeError"
    /\ ~Truthy(env["HF_TOKEN"])
    /\ hf_client = 0

IsIdOnly(attraction) ==
  /\ "id" \in DOMAIN attraction
  /\ DOMAIN attraction \subseteq {"id", "similarity", "distance"}

\* C8: a selected record that carries only an identifier renders to the
\* empty text, the step that formats it does not raise, and the record is
\* left out of the context and of the prompt.
C8_IdOnlyLeftOut ==
  \A r \in Reqs :
    \A i \in 1..Len(loc[r].top_attractions) :
      LET attraction == loc[r].top_attractions[i]
      IN IsIdOnly(attraction) =>
           /\ build_attraction_text(attraction) = <<>>
           /\ \A j \in 1..Len(loc[r].attractions_with_text) :
                loc[r].attractions_with_text[j][1] # ToStr(attraction.id)
           /\ Len(loc[r].attractions_with_text)
                <= Cardinality({k \in 1..Len(loc[r].top_attractions) :
                                  ~IsIdOnly(loc[r].top_attractions[k])})
           /\ ~Contains(loc[r].prompt,
                        <<"Attraction", "ID:">> \o ToStr(attraction.id))
           /\ ~FailedAt(r, {"answer_user_query"})

\* an identifier-only record is selected next to a full one, and only the
\* full one is in the context
C8_Witness ==
  \E r \in Reqs :
    /\ pc[r] = "call_llm"
    /\ loc[r].top_attractions = <<IdOnly, Eiffel>>
    /\ Len(loc[r].attractions_with_text) = 1
    /\ loc[r].attractions_with_text[1][1] = <<"id1">>

StepOrder == <<"embed", "retrieve", "select", "format", "compose", "generate">>

IsPrefix(s, t) == Len(s) <= Len(t) /\ SubSeq(t, 1, Len(s)) = s

\* C9: within one query the steps run only in the order embed, retrieve,
\* select, format, compose, generate, each at most once, and once a step
\* has failed no further step of that query runs.
C9_StepsInOrder ==
  [][\A r \in Reqs :
       /\ IsPrefix(hist'[r].trace, StepOrder)
       /\ outcome[r].kind = "raise" =>
            \/ hist'[r].trace = hist[r].trace
            \/ hist'[r].trace = <<>> /\ outcome'[r].kind = "none"]_vars

\* a query has failed at the RPC, after the embedding and before any
\* later step
C9_Witness ==
  \E r \in Reqs :
    /\ FailedAt(r, {"get_similarities"})
    /\ hist[r].trace = <<"embed", "retrieve">>

\* C10, as the spec states it: a failure reaches the caller with the class
\* of the step that failed, so that a failed embedding or vector-store call
\* is not of the class of a missing credential, and ask takes its
\* configuration branch (except RuntimeError) only for a missing credential.
C10_AsStated ==
  \A r \in Reqs :
    Failed(r) =>
      /\ outcome[r].step \in {"get_query_embedding", "get_similarities"} =>
           ~IsRuntimeError(outcome[r].cls)
      /\ IsRuntimeError(outcome[r].cls) =>
           /\ outcome[r].step \in {"get_hf_client", "get_openai_client"}
           /\ response[r].detail # GenericDetail

\* C11, as the spec states it: when a query fails because the embedding,
\* vector-store or generation call failed, the response of /ask is a
\* failure that has no text of the provider's error in it.
C11_AsStated ==
  \A r \in Reqs :
    FailedAt(r, {"get_query_embedding", "get_similarities", "call_llm"}) =>
      /\ response[r].status = 500
      /\ ~Contains(response[r].detail, ProviderDetail)

\* C12: whenever a step of the pipeline fails while /ask is served, the
\* response has status 500 and a detail, and it is never a 200 answer.
C12_FailureGives500 ==
  \A r \in Reqs :
    /\ Failed(r) =>
         /\ response[r].status = 500
         /\ DOMAIN response[r] = {"status", "detail"}
         /\ response[r].detail # <<>>
    /\ (pc[r] = "responded" /\ response[r].status = 200) =>
         outcome[r].kind = "return"

\* the RPC has failed and /ask has answered 500 with the generic detail
C12_Witness ==
  \E r \in Reqs :
    /\ FailedAt(r, {"get_similarities"})
    /\ response[r] = [status |-> 500, detail |-> GenericDetail]

\* the top_n of the request body is an integer outside 1..10
TopNOutOfRange(r) ==
  /\ hist[r].top_n # NoneV
  /\ (hist[r].top_n.i < 1 \/ hist[r].top_n.i > 10)

\* C13: a request whose top_n is outside 1..10 is answered 422, and no step
\* of the pipeline (embedding, retrieval, generation) runs for it.
C13_OutOfRangeRejected ==
  \A r \in Reqs :
    (pc[r] # "idle" /\ TopNOutOfRange(r)) =>
      /\ pc[r] = "responded"
      /\ response[r] = [status |-> 422]
      /\ outcome[r] = NoOutcome
      /\ hist[r].trace = <<>>
      /\ hist[r].embedCalls = 0
      /\ hist[r].rpcCalls = 0
      /\ hist[r].sent = <<>>

\* a request with top_n = 11 has been answered 422
C13_Witness ==
  \E r \in Reqs :
    /\ hist[r].top_n = PyInt(11)
    /\ response[r].status = 422

\* the n a request asks for: its top_n, or 3 when it gives none
RequestedN(r) == IF hist[r].top_n = NoneV THEN 3 ELSE hist[r].top_n.i

\* C14, as the spec states it: for every accepted request the selector is
\* called exactly once, with n the request's top_n, or 3 when it gives none.
C14_AsStated ==
  \A r \in Reqs :
    (pc[r] = "responded" /\ response[r].status # 422) =>
      hist[r].selected_with = <<RequestedN(r)>>

\* C14, amended: for every accepted request whose embedding and retrieval
\* succeed the selector is called exactly once, with n the request's top_n,
\* or 3 when it gives none; when embedding or retrieval fails the selector
\* is not called.
C14_SelectorGetsTopN ==
  \A r \in Reqs :
    hist[r].selected_with =
      IF hist[r].rpc = "returned" /\ pc[r] # "select"
      THEN <<RequestedN(r)>> ELSE <<>>

\* a request without top_n has been answered, the selector called with 3
C14_Witness ==
  \E r \in Reqs :
    /\ Answered(r)
    /\ hist[r].top_n = NoneV
    /\ hist[r].selected_with = <<3>>

-----------------------------------------------------------------------------
(* Claims about concurrent callers, checked under SpecConc *)

\* C15, as the spec states it: under any interleaving of the callers of
\* get_hf_client the embedding client is constructed at most once in the
\* process, and hf_client stays the first instance.
C15_AsStated == made.hf <= 1 /\ hf_client <= 1

\* what caller r would hold had it run alone: the records, the prompt and
\* the answer that its own query, top_n, RPC payload and reply determine
AloneAttractions(r) == Normalize(hist[r].payload)

AlonePrompt(r) ==
  build_llm_prompt(
    loc[r].user_query,
    attractions_with_text(get_top_n_docs(AloneAttractions(r), RequestedN(r))),
    hist[r].file)

\* C17: when queries run concurrently, under any interleaving of their
\* steps, the records, the composed prompt and the returned answer of each
\* query are those of the query run alone.
C17_QueriesIndependent ==
  \A r \in Callers :
    /\ hist[r].rpc = "returned" => loc[r].attractions = AloneAttractions(r)
    /\ HasPrompt(r) =>
         /\ AlonePrompt(r).ok
         /\ loc[r].prompt = AlonePrompt(r).val
         /\ Contains(loc[r].prompt, loc[r].user_query)
    /\ Answered(r) =>
         /\ hist[r].sent = <<loc[r].prompt>>
         /\ outcome[r].val = ReplyText(hist[r].reply)
         /\ response[r] = [status |-> 200, answer |-> ReplyText(hist[r].reply)]

\* two callers are in flight at once, each with a query, records and a
\* prompt of its own
C17_Witness ==
  /\ pc[1] = "call_llm"
  /\ pc[2] = "call_llm"
  /\ loc[1].user_query # loc[2].user_query
  /\ hist[1].payload = [has |-> TRUE, data |-> <<Eiffel, Louvre>>]
  /\ hist[2].payload = [has |-> TRUE, data |-> <<>>]
  /\ Contains(loc[1].prompt, RankedIntro)
  /\ Contains(loc[2].prompt, NoRelevantIntro)

OneMoreClient(n) == IF n = 0 THEN 1 ELSE 2

C18_SingleAttempt ==
  \A r \in Reqs :
    /\ hist[r].embedCalls <= 1
    /\ hist[r].rpcCalls <= 1
    /\ Len(hist[r].sent) <= 1
    /\ FailedAt(r, {"get_query_embedding"}) =>
         hist[r].embedCalls = 1 /\ hist[r].rpcCalls = 0 /\ hist[r].sent = <<>>
    /\ FailedAt(r, {"get_similarities"}) =>
         hist[r].rpcCalls = 1 /\ hist[r].sent = <<>>

\* the provider's chat completion has failed after one call of each provider
C18_Witness ==
  \E r \in Reqs :
    /\ FailedAt(r, {"call_llm"})
    /\ outcome[r].cls = "OpenAIError"
    /\ hist[r].embedCalls = 1
    /\ hist[r].rpcCalls = 1
    /\ Len(hist[r].sent) = 1

\* the RPC answered request r without data, or with an empty list
NoDataPayload(r) ==
  /\ hist[r].rpc = "returned"
  /\ (~hist[r].payload.has \/ hist[r].payload.data = <<>>)

\* C19: when the response of the RPC has no data, or has an empty list,
\* get_similarities returns the empty list and raises nothing.
C19_NoDataIsEmpty ==
  \A r \in Reqs :
    NoDataPayload(r) =>
      /\ loc[r].attractions = <<>>
      /\ pc[r] # "rpc"
      /\ outcome[r].kind = "raise" => outcome[r].step # "get_similarities"

\* the RPC has answered without data and the pipeline goes on to select
C19_Witness ==
  \E r \in Reqs :
    /\ pc[r] = "select"
    /\ hist[r].rpc = "returned"
    /\ ~hist[r].payload.has
    /\ loc[r].attractions = <<>>

-----------------------------------------------------------------------------
(* More claims about the pure functions, checked under SpecPure *)

\* the value the normalisation takes for a raw item: similarity when it is
\* there (and not null), distance otherwise
ScoreSource(raw) ==
  LET item == IF IsDict(raw) THEN raw ELSE EmptyDict
  IN IF Get(item, "similarity", NoneV) # NoneV THEN item.similarity
     ELSE Get(item, "distance", NoneV)

\* the record has a score: a similarity that is not null
HasScore(record) ==
  "similarity" \in DOMAIN record /\ record.similarity # NoneV

\* C20, as the spec states it: for every raw item the normalisation takes
\* similarity when present and distance otherwise; the record has a float
\* score when that value is numeric and no score at all when both are
\* absent or the value is not numeric.
C20_AsStated ==
  (Normalized /\ call.payload.has) =>
    \A i \in 1..Len(call.payload.data) :
      LET value == ScoreSource(call.payload.data[i])
      IN IF value # NoneV /\ ToFloat(value).ok
         THEN out.val[i].similarity = ToFloat(value).val
         ELSE ~HasScore(out.val[i])

\* the calls of the other pure functions that have returned
Rendered == call.fn = "build_attraction_text" /\ out.done
Formatted == call.fn = "attractions_with_text" /\ out.done
Extracted == call.fn = "call_llm" /\ out.done
Matched == call.fn = "max_matches" /\ out.done

\* the field is present in the record and is neither null nor empty
NonEmpty(record, key) ==
  key \in DOMAIN record /\ record[key] \notin {NoneV, PyStr(<<>>)}

\* one line for each field that is present and non-empty, in the order
\* name/location, category, address, price+currency, hours, description
LinesOfNonEmptyFields(record) ==
  (IF NonEmpty(record, "attraction_name")
   THEN << <<"Attraction:">> \o ToStr(record.attraction_name)
             \o (IF NonEmpty(record, "city_name")
                 THEN <<"in">> \o ToStr(record.city_name) ELSE <<>>) >>
   ELSE <<>>)
  \o (IF NonEmpty(record, "attraction_type")
      THEN << <<"Type:">> \o ToStr(record.attraction_type) >> ELSE <<>>)
  \o (IF NonEmpty(record, "address")
      THEN << <<"Address:">> \o ToStr(record.address) >> ELSE <<>>)
  \o (IF NonEmpty(record, "price")
      THEN << <<"Price:">> \o ToStr(record.price)
                \o ToStr(Get(record, "currency", PyStr(<<"USD">>))) >>
      ELSE <<>>)
  \o (IF NonEmpty(record, "open_hours")
      THEN << <<"Opening", "Hours:">> \o ToStr(record.open_hours) >>
      ELSE <<>>)
  \o (IF NonEmpty(record, "things_to_do")
      THEN << <<"Description:">> \o ToStr(record.things_to_do) >> ELSE <<>>)

\* C21, as the spec states it: the rendered text of a record has exactly one
\* line for each field that is present and non-empty, no line for a field
\* that is absent or empty, and the lines are in the fixed order.
C21_AsStated ==
  Rendered =>
    out.val = Join(<<"\n">>, LinesOfNonEmptyFields(call.attraction))

\* the response has no path to the text of the first completion
LacksAnswerPath(resp) ==
  \/ resp.kind \in {"no_choices", "missing_choices", "null_choices",
                    "null_message"}
  \/ resp.kind = "content" /\ resp.v = NoneV

\* C22, as the spec states it: when the response of the provider lacks the
\* path to the first completion's text (no choices, a missing or null list
\* of choices, a missing message or content), call_llm returns the empty
\* string and does not fail.
C22_AsStated ==
  (Extracted /\ LacksAnswerPath(call.response)) =>
    out.val = [ok |-> TRUE, val |-> <<>>]

\* how often the token occurs in the text
Occurrences(s, tok) == Cardinality({i \in 1..Len(s) : s[i] = tok})

\* C24: when rag_prompt.txt is missing or cannot be read, loading the
\* template does not raise and gives the built-in template, which has the
\* two replacement fields {user_query} and {context_intro}, and
\* build_llm_prompt still produces a prompt, with the query and the context
\* introduction in it.
C24_TemplateFallback ==
  (call.fn = "build_llm_prompt" /\ out.done
     /\ call.file.state \in {"missing", "unreadable"}) =>
    /\ _load_prompt_template(call.file) = DefaultTemplate
    /\ Occurrences(DefaultTemplate, "{user_query}") = 1
    /\ Occurrences(DefaultTemplate, "{context_intro}") = 1
    /\ out.val.ok
    /\ Contains(out.val.val, call.user_query)
    /\ Contains(out.val.val, ContextIntro(call.attractions_text))

\* a prompt has been composed while the file could not be read
C24_Witness ==
  /\ Composed
  /\ call.file.state = "unreadable"
  /\ call.attractions_text # <<>>
  /\ Contains(out.val.val, RankedIntro)

\* the context entry that a record stands for
EntryOf(attraction) ==
  <<ToStr(Get(attraction, "id", PyStr(<<>>))),
    build_attraction_text(attraction)>>

\* the record has an identifier: the field is there, not null and not empty
IdPresent(attraction) == NonEmpty(attraction, "id")

\* the selected records that are to add an entry: those with an identifier
\* and a non-empty formatted text
Kept(top_attractions) ==
  {i \in 1..Len(top_attractions) :
     /\ IdPresent(top_attractions[i])
     /\ build_attraction_text(top_attractions[i]) # <<>>}

\* C27, as the spec states it: every selected record whose identifier is
\* missing (absent or null) or whose formatted text is empty adds no entry
\* to the context, and every other selected record adds exactly one.
C27_AsStated ==
  Formatted =>
    /\ Len(out.val) = Cardinality(Kept(call.top_attractions))
    /\ \A j \in 1..Len(out.val) :
         \E i \in Kept(call.top_attractions) :
           out.val[j] = EntryOf(call.top_attractions[i])

\* the least count asked of the RPC
FloorConstant == 10

\* C28: for every top_n the count the orchestrator asks of the retrieval is
\* max(top_n, 10): it is top_n or the floor, and smaller than neither.
C28_MaxMatches ==
  Matched =>
    /\ out.val \in {call.top_n, FloorConstant}
    /\ out.val >= call.top_n
    /\ out.val >= FloorConstant

\* a top_n above the floor is asked for as it is
C28_Witness ==
  /\ Matched
  /\ call.top_n = 12
  /\ out.val = 12

-----------------------------------------------------------------------------
(* More claims about the pipeline, checked under Spec *)

\* C23, as the spec states it: when the loaded template cannot be
\* substituted, composing fails with the configuration error, the class of a
\* missing credential, and /ask does not answer with its generic error.
C23_AsStated ==
  \A r \in Reqs :
    FailedAt(r, {"build_llm_prompt"}) =>
      /\ IsRuntimeError(outcome[r].cls)
      /\ response[r].detail # GenericDetail

\* C25: when OPENAI_API_KEY is absent, call_llm fails with the
\* configuration error (RuntimeError) and nothing is sent to the generation
\* provider.
C25_NoKeyNoRequest ==
  [][\A r \in Reqs :
       (pc[r] = "call_llm" /\ pc'[r] # "call_llm"
          /\ ~Truthy(env["OPENAI_API_KEY"])) =>
         /\ outcome'[r].kind = "raise"
         /\ outcome'[r].cls = "RuntimeError"
         /\ outcome'[r].step = "get_openai_client"
         /\ hist'[r].sent = <<>>
         /\ hist'[r].reply = [kind |-> "none"]
         /\ made'.openai = made.openai]_vars

\* a request has failed for the missing OPENAI_API_KEY, nothing was sent
C25_Witness ==
  \E r \in Reqs :
    /\ FailedAt(r, {"get_openai_client"})
    /\ outcome[r].cls = "RuntimeError"
    /\ ~Truthy(env["OPENAI_API_KEY"])
    /\ hist[r].sent = <<>>
    /\ made.openai = 0

\* the records among which the context is chosen: the first top_n of the
\* records get_similarities returned
FirstTopN(r) ==
  SubSeq(loc[r].attractions, 1,
         Min(RequestedN(r), Len(loc[r].attractions)))

\* C26: in every run the context handed to build_llm_prompt has at most
\* top_n entries and is an order-preserving subsequence of the first top_n
\* records of the retrieval: nothing is added, duplicated or moved.
C26_ContextIsSubsequence ==
  \A r \in Reqs :
    hist[r].selected_with # <<>> =>
      LET context == loc[r].attractions_with_text
          first == FirstTopN(r)
      IN /\ Len(context) <= RequestedN(r)
         /\ \E f \in [1..Len(context) -> 1..Len(first)] :
              /\ \A j, k \in 1..Len(context) : j < k => f[j] < f[k]
              /\ \A j \in 1..Len(context) : context[j] = EntryOf(first[f[j]])

\* of two retrieved records the second alone is in the context
C26_Witness ==
  \E r \in Reqs :
    /\ pc[r] = "call_llm"
    /\ hist[r].payload = [has |-> TRUE, data |-> <<NoId, Louvre>>]
    /\ Len(loc[r].attractions_with_text) = 1
    /\ loc[r].attractions_with_text[1][1] = <<"id2">>

\* the failure of get_hf_client for a missing HF_TOKEN
MissingHfToken ==
  Raised("RuntimeError", "get_hf_client",
         <<"HF_TOKEN", "environment", "variable", "is", "not", "set">>)

\* C29: while HF_TOKEN is absent and no client is cached, every attempt
\* ends in the same configuration failure and leaves hf_client unset and
\* everything else a later attempt reads as it was; so the first attempt
\* after HF_TOKEN is supplied goes on to construct the client, and the
\* client it constructs is cached.
C29_FailureLeavesNoTrace ==
  [][\A r \in Reqs :
       /\ (pc[r] = "get_hf_client" /\ pc'[r] # "get_hf_client"
             /\ hf_client = 0) =>
            IF ~Truthy(env["HF_TOKEN"])
            THEN /\ outcome'[r] = MissingHfToken
                 /\ hf_client' = 0
                 /\ made' = made
                 /\ env' = env
                 /\ templateFile' = templateFile
            ELSE /\ pc'[r] = "InferenceClient"
                 /\ outcome'[r] = NoOutcome
       /\ (pc[r] = "InferenceClient" /\ pc'[r] = "feature_extraction") =>
            /\ hf_client' # 0
            /\ made'.hf = 1]_vars

\* an attempt has failed for the missing HF_TOKEN, which has been supplied
\* since; no client is cached
C29_Witness ==
  \E r \in Reqs :
    /\ outcome[r] = MissingHfToken
    /\ pc[r] = "responded"
    /\ Truthy(env["HF_TOKEN"])
    /\ hf_client = 0
    /\ made.hf = 0

\* a request ends while OPENAI_API_KEY is absent and HF_TOKEN is present
EndsWithoutOpenAiKey(r) ==
  /\ InFlight(r)
  /\ pc'[r] = "responded"
  /\ ~Truthy(env["OPENAI_API_KEY"])
  /\ Truthy(env["HF_TOKEN"])

\* C30, as the spec states it: when OPENAI_API_KEY is absent and HF_TOKEN
\* present, answer_user_query fails at the generate step only, after one
\* call of the embedding provider and one of the RPC, and the generation
\* provider is not called.
C30_AsStated ==
  [][\A r \in Reqs :
       EndsWithoutOpenAiKey(r) =>
         /\ outcome'[r].kind = "raise"
         /\ outcome'[r].step = "get_openai_client"
         /\ hist'[r].embedCalls = 1
         /\ hist'[r].rpcCalls = 1
         /\ hist'[r].sent = <<>>]_vars

\* C30, amended: when OPENAI_API_KEY is absent and HF_TOKEN present, and
\* the embedding call, the RPC and the composition of the prompt succeed,
\* answer_user_query fails at the generate step, after one call of the
\* embedding provider and one of the RPC; whichever step fails, the
\* request fails, the generation provider is not called, and no step before
\* generate fails for the missing OPENAI_API_KEY.
C30_FailsAtGenerate ==
  [][\A r \in Reqs :
       EndsWithoutOpenAiKey(r) =>
         /\ outcome'[r].kind = "raise"
         /\ hist'[r].sent = <<>>
         /\ outcome'[r].step = "get_openai_client" <=> pc[r] = "call_llm"
         /\ pc[r] = "call_llm" =>
              /\ hist'[r].embedCalls = 1
              /\ hist'[r].rpcCalls = 1
              /\ hist'[r].trace = StepOrder]_vars

\* a request has failed at generate for the missing OPENAI_API_KEY, after
\* the embedding and the RPC were called once each
C30_Witness ==
  \E r \in Reqs :
    /\ FailedAt(r, {"get_openai_client"})
    /\ Truthy(env["HF_TOKEN"])
    /\ ~Truthy(env["OPENAI_API_KEY"])
    /\ hist[r].embedCalls = 1
    /\ hist[r].rpcCalls = 1
    /\ hist[r].trace = StepOrder

====
